---- MODULE Spec2Model ----
\* A model of the RFID reader firmware: the tag-scan polling loop of
\* RFID_Handler.read_data (src/rfid_handler.py), the lock-guarded task
\* dispatcher start_thread / stop_thread (src/threading.py), the indicator
\* controller (src/led_controller.py) and the delivery callback handle_data
\* (src/main.py).
\*
\* Spec         the whole program as main.py runs it: one scan loop on the main
\*              context, the success indication dispatched to the secondary unit.
\* SpecThreads  the threading module driven through its two entry points by
\*              several caller contexts, for the claims about the module itself.
EXTENDS Integers, Sequences, FiniteSets, TLC

\* ---------------------------------------------------------------- constants
\* RFID_Handler.SECTORS: the sector loop is range(1, SECTORS).
SECTORS == 16
\* The block loop is range(3).
BLOCKS == 3
\* The success check is made at `sector == 15 and block == 2`.
FinalSector == 15
FinalBlock == 2

\* ------------------------------------------------------------------- bounds
\* Polling cycles (iterations of `while True`) explored.
MaxCycles == 2
\* Failed block reads the reader may return within one cycle.
MaxFails == 2
\* Calls each caller context of SpecThreads makes.
MaxCalls == 2
\* Tasks the secondary execution side runs at once before a start reports busy.
MaxThreads == 2

None == "None"
\* `current_thread = None`: the empty slot; the handles are 1, 2, ...
NoThread == 0
OK == "OK"
ERR == "ERR"

\* The contexts that call into the program: the main context running
\* read_data, and the caller contexts of SpecThreads.
Main == "main"
Clients == {"c1", "c2"}
Callers == {Main} \cup Clients
\* The callables handed to start_thread: the one read_data passes, and two
\* arbitrary ones.
SuccessHigh == "success.high"
Tasks == {"A", "B"}
\* The identifiers SelectTagSN can return.
UIDs == {"uid1"}

VARIABLES
    \* read_data's locals and the reader's last answers
    pc, leds, fail_flag, request, all_data, read_failed, status, uid, sector, block,
    \* the indicator pins
    success, progress, error,
    \* threading.py's module state, and each caller's position in it
    thread_lock, current_thread, arg, depth,
    \* the secondary execution side: the thread of each handle, and those alive
    taskOf, running,
    \* observations: what this cycle's block reads were given and returned, the cycle's
    \* success-path events, the error blinks of this cycle, the addresses at
    \* which the success check was made, what the callback was handed, whether
    \* the previous tag-present cycle ended in a failed read, the backoff
    \* sleeps and calls of each caller
    readLog, events, errBlinks, checks, delivered, prevEndedFailed,
    backoffs, calls,
    \* handle_data: what the display was given, and the log lines of caught faults
    displayed, logged

scanVars == <<fail_flag, request, all_data, read_failed, status, uid, sector, block>>
ledVars == <<success, progress, error>>
lockVars == <<thread_lock, current_thread, arg, depth>>
unitVars == <<taskOf, running>>
obsVars == <<readLog, events, errBlinks, checks, delivered, prevEndedFailed>>
callVars == <<backoffs, calls>>
dispVars == <<displayed, logged>>
vars == <<pc, leds, scanVars, ledVars, lockVars, unitVars, obsVars, callVars, dispVars>>

\* ------------------------------------------------------------------ helpers
\* The addresses the two loops visit: range(1, SECTORS) by range(3).
NumAddrs == (SECTORS - 1) * BLOCKS

\* The payload the tag holds at an address: distinct bytes per address, and
\* payloads of different lengths.
BlockData(s, b) ==
    LET byte == (s - 1) * BLOCKS + b + 1
    IN  IF b = 1 THEN <<byte, byte>> ELSE <<byte>>

\* What mfrc522.readSectorBlock can return: a status, and the data or None
\* (hasData false); a failed transfer may still hand back what it received.
ReadOutcomes(s, b) ==
    { [status |-> OK, hasData |-> TRUE, data |-> BlockData(s, b)],
      [status |-> OK, hasData |-> FALSE, data |-> <<>>],
      [status |-> ERR, hasData |-> TRUE, data |-> BlockData(s, b)],
      [status |-> ERR, hasData |-> FALSE, data |-> <<>>] }

\* `status == self.mfrc522.OK and data is not None`
ReadOk(o) == o.status = OK /\ o.hasData

\* (variant: every block's data is appended, whatever its status)
Accumulate_Always(acc, o) ==
    IF o.hasData THEN acc \o o.data ELSE acc

\* all_data after a block read that returned o
Accumulate(acc, o) ==
    IF ReadOk(o) THEN acc \o o.data ELSE acc

\* (variant: read_failed follows the last read only)
ReadFailedAfter_LastOnly(rf, o) ==
    ~ReadOk(o)

\* read_failed after a block read that returned o
ReadFailedAfter(rf, o) ==
    IF ReadOk(o) THEN rf ELSE TRUE

\* fail_flag after a block read that returned o
FailFlagAfter(ff, o) ==
    IF ReadOk(o) THEN FALSE ELSE TRUE

\* Whether a block read that returned o starts the error indication
ErrorSignalled(ff, o) ==
    ~ReadOk(o) /\ ~ff

\* (variant: the block is not looked at)
AtFinal_SectorOnly(s, b) == s = FinalSector

\* `if sector == 15 and block == 2`
AtFinal(s, b) == s = FinalSector /\ b = FinalBlock

\* ---------------------------------------------------------------------- Init
Init ==
    /\ pc = [c \in Callers |-> IF c = Main THEN "clear" ELSE "idle"]
    \* main() builds RFID_Handler(led_controller=led_controller): self.leds is
    \* the controller, never the default None.
    /\ leds = TRUE
    /\ fail_flag = FALSE
    /\ request = 0
    /\ all_data = <<>>
    /\ read_failed = FALSE
    /\ status = None
    /\ uid = None
    /\ sector = 1
    /\ block = 0
    \* LED_Controller.__initialize leaves every pin low.
    /\ success = FALSE
    /\ progress = FALSE
    /\ error = FALSE
    /\ thread_lock = None
    /\ current_thread = NoThread
    /\ arg = [c \in Callers |-> None]
    /\ depth = [c \in Callers |-> 0]
    /\ taskOf = <<>>
    /\ running = {}
    /\ readLog = <<>>
    /\ events = <<>>
    /\ errBlinks = 0
    /\ checks = <<>>
    /\ delivered = <<>>
    /\ prevEndedFailed = FALSE
    /\ backoffs = [c \in Callers |-> 0]
    /\ calls = [c \in Callers |-> 0]
    /\ displayed = <<>>
    /\ logged = <<>>

\* ------------------------------------------------- read_data, the scan loop
\* The reads of the log that the reader reported as failed.
NumFails(log) == Cardinality({i \in 1..Len(log) : log[i].failed})

\* The indicators are cleared and the locals set up, before the loop.
ClearIndicators ==
    /\ pc[Main] = "clear"
    /\ IF leds
         THEN success' = FALSE /\ progress' = FALSE /\ error' = FALSE
         ELSE UNCHANGED ledVars
    /\ fail_flag' = FALSE
    /\ request' = 0
    /\ pc' = [pc EXCEPT ![Main] = "request"]
    /\ UNCHANGED <<dispVars, leds, all_data, read_failed, status, uid, sector, block,
                   lockVars, unitVars, obsVars, callVars>>

\* Variant: the progress indicator is raised before the status is looked at.
Request_ProgressFirst ==
    /\ pc[Main] = "request"
    /\ request < MaxCycles
    /\ request' = request + 1
    /\ all_data' = <<>>
    /\ read_failed' = FALSE
    /\ readLog' = <<>>
    /\ events' = <<>>
    /\ errBlinks' = 0
    /\ checks' = <<>>
    /\ prevEndedFailed' =
         IF readLog # <<>> THEN readLog[Len(readLog)].failed ELSE prevEndedFailed
    /\ \E st \in {OK, ERR} :
         /\ status' = st
         /\ IF st = OK
              THEN /\ progress' = (IF leds THEN TRUE ELSE progress)
                   /\ pc' = [pc EXCEPT ![Main] = "select"]
              ELSE /\ progress' = (IF leds THEN TRUE ELSE progress)
                   /\ pc' = [pc EXCEPT ![Main] = "sleep"]
    /\ UNCHANGED <<dispVars, leds, fail_flag, uid, sector, block, success, error,
                   lockVars, unitVars, delivered, callVars>>

\* The top of `while True`: the cycle's locals are reset and the request
\* query is issued; a tag answers (OK) or does not.
Request ==
    /\ pc[Main] = "request"
    /\ request < MaxCycles
    /\ request' = request + 1
    /\ all_data' = <<>>
    /\ read_failed' = FALSE
    /\ readLog' = <<>>
    /\ events' = <<>>
    /\ errBlinks' = 0
    /\ checks' = <<>>
    /\ prevEndedFailed' =
         IF readLog # <<>> THEN readLog[Len(readLog)].failed ELSE prevEndedFailed
    /\ \E st \in {OK, ERR} :
         /\ status' = st
         /\ IF st = OK
              THEN /\ progress' = (IF leds THEN TRUE ELSE progress)
                   /\ pc' = [pc EXCEPT ![Main] = "select"]
              ELSE /\ progress' = progress
                   /\ pc' = [pc EXCEPT ![Main] = "sleep"]
    /\ UNCHANGED <<dispVars, leds, fail_flag, uid, sector, block, success, error,
                   lockVars, unitVars, delivered, callVars>>

\* Variant: a select that did not report OK ends the cycle.
SelectTag_Gated ==
    /\ pc[Main] = "select"
    /\ \E o \in ({OK} \X UIDs) \cup {<<ERR, None>>} :
         /\ status' = o[1]
         /\ uid' = o[2]
         /\ pc' = [pc EXCEPT ![Main] = IF o[1] = OK THEN "read" ELSE "sleep"]
    /\ sector' = 1
    /\ block' = 0
    /\ UNCHANGED <<dispVars, leds, fail_flag, request, all_data, read_failed,
                   ledVars, lockVars, unitVars, obsVars, callVars>>

\* SelectTagSN: its status is stored and not looked at; the loops start.
SelectTag ==
    /\ pc[Main] = "select"
    /\ \E o \in ({OK} \X UIDs) \cup {<<ERR, None>>} :
         /\ status' = o[1]
         /\ uid' = o[2]
    /\ sector' = 1
    /\ block' = 0
    /\ pc' = [pc EXCEPT ![Main] = "read"]
    /\ UNCHANGED <<dispVars, leds, fail_flag, request, all_data, read_failed,
                   ledVars, lockVars, unitVars, obsVars, callVars>>

\* The two `for` loops step to the next address, or end.
Advance ==
    IF block + 1 < BLOCKS
      THEN /\ pc' = [pc EXCEPT ![Main] = "read"]
           /\ block' = block + 1
           /\ sector' = sector
      ELSE IF sector + 1 < SECTORS
      THEN /\ pc' = [pc EXCEPT ![Main] = "read"]
           /\ sector' = sector + 1
           /\ block' = 0
      ELSE /\ pc' = [pc EXCEPT ![Main] = "sleep"]
           /\ UNCHANGED <<sector, block>>

\* (variant: the scan is left at the first failed read)
IterationEnd_Abort(rf) ==
    /\ checks' = IF AtFinal(sector, block)
                   THEN Append(checks, <<sector, block>>) ELSE checks
    /\ IF rf
         THEN /\ pc' = [pc EXCEPT ![Main] = "sleep"]
              /\ UNCHANGED <<sector, block>>
         ELSE IF AtFinal(sector, block)
         THEN /\ pc' = [pc EXCEPT ![Main] = "success"]
              /\ UNCHANGED <<sector, block>>
         ELSE Advance

\* The rest of a loop iteration once the block is handled: the success check
\* at the final address, then the loops step on.
IterationEnd(rf) ==
    /\ checks' = IF AtFinal(sector, block)
                   THEN Append(checks, <<sector, block>>) ELSE checks
    /\ IF AtFinal(sector, block) /\ ~rf
         THEN /\ pc' = [pc EXCEPT ![Main] = "success"]
              /\ UNCHANGED <<sector, block>>
         ELSE Advance

\* One readSectorBlock and what the loop body does with its answer.
ReadBlock ==
    /\ pc[Main] = "read"
    /\ \E o \in ReadOutcomes(sector, block) :
         /\ (o.status = OK /\ o.hasData) \/ NumFails(readLog) < MaxFails
         /\ status' = o.status
         \* logged as the reader reported it: failed is status not OK, or no data
         /\ readLog' = Append(readLog, [uid |-> uid, sector |-> sector, block |-> block,
                                        failed |-> (o.status # OK \/ ~o.hasData)])
         /\ all_data' = Accumulate(all_data, o)
         /\ read_failed' = ReadFailedAfter(read_failed, o)
         /\ IF ErrorSignalled(fail_flag, o) /\ leds
              THEN \* progress.low(), then blink(error) begins
                   /\ progress' = FALSE
                   /\ pc' = [pc EXCEPT ![Main] = "blink_high"]
                   /\ UNCHANGED <<fail_flag, sector, block, checks>>
              ELSE /\ fail_flag' = FailFlagAfter(fail_flag, o)
                   /\ progress' = progress
                   /\ IterationEnd(read_failed')
    /\ UNCHANGED <<dispVars, leds, request, uid, success, error, lockVars, unitVars,
                   events, errBlinks, delivered, prevEndedFailed, callVars>>

\* LED_Controller.blink(error): led.high(), then the wait.
BlinkHigh ==
    /\ pc[Main] = "blink_high"
    /\ error' = TRUE
    /\ errBlinks' = errBlinks + 1
    /\ pc' = [pc EXCEPT ![Main] = "blink_low"]
    /\ UNCHANGED <<dispVars, leds, scanVars, success, progress, lockVars, unitVars,
                   readLog, events, checks, delivered, prevEndedFailed, callVars>>

\* led.low() and the second wait; back in read_data the flag is set and the
\* iteration ends.
BlinkLow ==
    /\ pc[Main] = "blink_low"
    /\ error' = FALSE
    /\ fail_flag' = TRUE
    /\ IterationEnd(read_failed)
    /\ UNCHANGED <<dispVars, leds, request, all_data, read_failed, status, uid,
                   success, progress, lockVars, unitVars,
                   readLog, events, errBlinks, delivered, prevEndedFailed, callVars>>

\* Variant: the success branch without progress.low().
SignalSuccess_KeepProgress ==
    /\ pc[Main] = "success"
    /\ IF leds
         THEN /\ progress' = progress
              /\ events' = Append(events, "dispatch")
              /\ arg' = [arg EXCEPT ![Main] = SuccessHigh]
              /\ pc' = [pc EXCEPT ![Main] = "st_acquire"]
         ELSE /\ pc' = [pc EXCEPT ![Main] = "callback"]
              /\ UNCHANGED <<progress, events, arg>>
    /\ UNCHANGED <<dispVars, leds, scanVars, success, error, thread_lock, current_thread,
                   depth, unitVars, readLog, errBlinks, checks, delivered,
                   prevEndedFailed, callVars>>

\* The success branch: progress.low() and the call of start_thread.
SignalSuccess ==
    /\ pc[Main] = "success"
    /\ IF leds
         THEN /\ progress' = FALSE
              /\ events' = Append(events, "dispatch")
              /\ arg' = [arg EXCEPT ![Main] = SuccessHigh]
              /\ pc' = [pc EXCEPT ![Main] = "st_acquire"]
         ELSE /\ pc' = [pc EXCEPT ![Main] = "callback"]
              /\ UNCHANGED <<progress, events, arg>>
    /\ UNCHANGED <<dispVars, leds, scanVars, success, error, thread_lock, current_thread,
                   depth, unitVars, readLog, errBlinks, checks, delivered,
                   prevEndedFailed, callVars>>

\* convert_hex_to_ASCII_string: the values other than 0, as characters.
ToAscii(data) == SelectSeq(data, LAMBDA v : v # 0)

\* Where a fault can arise in handle_data's `try` block: nowhere, before
\* display.print has shown the text, or after it (in lcd_init).
DisplayFaults == {"none", "before_print", "after_print"}

\* Variant: handle_data has no `except`, a fault leaves read_data and main
\* ends in its own handler; a handoff without fault goes on as usual.
Callback_Propagates ==
    /\ pc[Main] = "callback"
    /\ delivered' = Append(delivered, all_data)
    /\ events' = Append(events, "deliver")
    /\ \E f \in DisplayFaults :
         /\ displayed' = IF f = "before_print" THEN displayed
                         ELSE Append(displayed, ToAscii(all_data))
         /\ logged' = IF f = "none" THEN logged
                      ELSE Append(logged, "Display error")
         /\ pc' = [pc EXCEPT ![Main] = IF f = "none" THEN "release" ELSE "ended"]
    /\ UNCHANGED <<leds, scanVars, ledVars, lockVars, unitVars,
                   readLog, errBlinks, checks, prevEndedFailed, callVars>>

\* callback(all_data), that is handle_data: the text goes to the display; a
\* fault is caught by `except Exception`, logged, and handle_data returns.
Callback ==
    /\ pc[Main] = "callback"
    /\ delivered' = Append(delivered, all_data)
    /\ events' = Append(events, "deliver")
    /\ \E f \in DisplayFaults :
         /\ displayed' = IF f = "before_print" THEN displayed
                         ELSE Append(displayed, ToAscii(all_data))
         /\ logged' = IF f = "none" THEN logged
                      ELSE Append(logged, "Display error")
    /\ pc' = [pc EXCEPT ![Main] = "release"]
    /\ UNCHANGED <<leds, scanVars, ledVars, lockVars, unitVars,
                   readLog, errBlinks, checks, prevEndedFailed, callVars>>

\* mfrc522.stop_crypto1()
StopCrypto1 ==
    /\ pc[Main] = "release"
    /\ events' = Append(events, "release")
    /\ pc' = [pc EXCEPT ![Main] = "reset"]
    /\ UNCHANGED <<dispVars, leds, scanVars, ledVars, lockVars, unitVars,
                   readLog, errBlinks, checks, delivered, prevEndedFailed, callVars>>

\* Variant: the restart is missing, and the loop goes on to its poll sleep
\* with the secondary unit left as it is.
Reset_Continue ==
    /\ pc[Main] = "reset"
    /\ events' = Append(events, "restart")
    /\ pc' = [pc EXCEPT ![Main] = "sleep"]
    /\ UNCHANGED <<dispVars, leds, scanVars, ledVars, lockVars, unitVars,
                   readLog, errBlinks, checks, delivered, prevEndedFailed, callVars>>

\* machine.reset(): the device restarts; nothing runs after it.
Reset ==
    /\ pc[Main] = "reset"
    /\ events' = Append(events, "restart")
    /\ running' = {}
    /\ pc' = [pc EXCEPT ![Main] = "restarted"]
    /\ UNCHANGED <<dispVars, leds, scanVars, ledVars, lockVars, taskOf,
                   readLog, errBlinks, checks, delivered, prevEndedFailed, callVars>>

\* time.sleep(0.2) and the log line, at the bottom of `while True`.
PollSleep ==
    /\ pc[Main] = "sleep"
    /\ pc' = [pc EXCEPT ![Main] = "request"]
    /\ UNCHANGED <<dispVars, leds, scanVars, ledVars, lockVars, unitVars, obsVars, callVars>>

\* ------------------------------------------- threading.py, the task dispatcher
\* (variant: the lock is not waited for)
CanAcquire_NoWait(c) == TRUE

\* `with thread_lock:` blocks until the lock is free; the lock of
\* _thread.allocate_lock() is not reentrant, its holder included.
CanAcquire(c) == thread_lock = None

\* _thread.start_new_thread raises OSError while the secondary side is occupied.
UnitBusy == Cardinality(running) >= MaxThreads

\* (variant: the scan loop goes on after the callback's line)
ReturnPc_SkipCallback(c) == IF c = Main THEN "release" ELSE "idle"

\* Where a caller continues once start_thread or stop_thread has returned.
ReturnPc(c) == IF c = Main THEN "callback" ELSE "idle"

\* start_thread enters `with thread_lock:`.
StartAcquire(c) ==
    /\ pc[c] = "st_acquire"
    /\ CanAcquire(c)
    /\ thread_lock' = c
    /\ pc' = [pc EXCEPT ![c] = "st_discard"]
    /\ UNCHANGED <<dispVars, leds, scanVars, ledVars, current_thread, arg, depth,
                   unitVars, obsVars, callVars>>

\* (variant: the task of the discarded handle is stopped)
StartDiscard_Cancel(c) ==
    /\ pc[c] = "st_discard"
    /\ current_thread' = NoThread
    /\ running' = running \ {current_thread}
    /\ pc' = [pc EXCEPT ![c] = "st_start"]
    /\ UNCHANGED <<dispVars, leds, scanVars, ledVars, thread_lock, arg, depth,
                   taskOf, obsVars, callVars>>

\* `if current_thread is not None: current_thread = None`
StartDiscard(c) ==
    /\ pc[c] = "st_discard"
    /\ current_thread' = (IF current_thread # NoThread THEN NoThread ELSE current_thread)
    /\ pc' = [pc EXCEPT ![c] = "st_start"]
    /\ UNCHANGED <<dispVars, leds, scanVars, ledVars, thread_lock, arg, depth,
                   unitVars, obsVars, callVars>>

\* _thread.start_new_thread succeeds: the task runs on the secondary side and
\* its handle is stored in the slot.
StartOk(c) ==
    /\ pc[c] = "st_start"
    /\ ~UnitBusy
    /\ taskOf' = Append(taskOf, arg[c])
    /\ running' = running \cup {Len(taskOf) + 1}
    /\ current_thread' = Len(taskOf) + 1
    /\ pc' = [pc EXCEPT ![c] = "st_exit"]
    /\ UNCHANGED <<dispVars, leds, scanVars, ledVars, thread_lock, arg, depth,
                   obsVars, callVars>>

\* _thread.start_new_thread raises OSError: the message is printed and the
\* caller sleeps, inside the `with` block.
StartBusy(c) ==
    /\ pc[c] = "st_start"
    /\ UnitBusy
    /\ pc' = [pc EXCEPT ![c] = "st_sleep"]
    /\ UNCHANGED <<dispVars, leds, scanVars, ledVars, lockVars, unitVars, obsVars, callVars>>

\* time.sleep(1) is over and start_thread calls itself, from inside the
\* `with` block of the calling frame.
StartBackoff(c) ==
    /\ pc[c] = "st_sleep"
    /\ backoffs' = [backoffs EXCEPT ![c] = @ + 1]
    /\ depth' = [depth EXCEPT ![c] = @ + 1]
    /\ pc' = [pc EXCEPT ![c] = "st_acquire"]
    /\ UNCHANGED <<dispVars, leds, scanVars, ledVars, thread_lock, current_thread, arg,
                   unitVars, obsVars, calls>>

\* The `with` block is left: the lock is released and the frame returns, to
\* the calling frame of start_thread if there is one.
StartExit(c) ==
    /\ pc[c] = "st_exit"
    /\ thread_lock' = None
    /\ IF depth[c] > 0
         THEN /\ depth' = [depth EXCEPT ![c] = @ - 1]
              /\ pc' = pc
         ELSE /\ depth' = depth
              /\ pc' = [pc EXCEPT ![c] = ReturnPc(c)]
    /\ UNCHANGED <<dispVars, leds, scanVars, ledVars, current_thread, arg,
                   unitVars, obsVars, callVars>>

\* stop_thread enters `with thread_lock:`.
StopAcquire(c) ==
    /\ pc[c] = "sp_acquire"
    /\ CanAcquire(c)
    /\ thread_lock' = c
    /\ pc' = [pc EXCEPT ![c] = "sp_clear"]
    /\ UNCHANGED <<dispVars, leds, scanVars, ledVars, current_thread, arg, depth,
                   unitVars, obsVars, callVars>>

\* Variant: clearing the slot also ends the task the slot refers to.
StopClear_Kill(c) ==
    /\ pc[c] = "sp_clear"
    /\ current_thread' = NoThread
    /\ running' = running \ {current_thread}
    /\ pc' = [pc EXCEPT ![c] = "sp_exit"]
    /\ UNCHANGED <<dispVars, leds, scanVars, ledVars, thread_lock, arg, depth,
                   taskOf, obsVars, callVars>>

\* `if current_thread is not None: current_thread = None`
StopClear(c) ==
    /\ pc[c] = "sp_clear"
    /\ current_thread' = (IF current_thread # NoThread THEN NoThread ELSE current_thread)
    /\ pc' = [pc EXCEPT ![c] = "sp_exit"]
    /\ UNCHANGED <<dispVars, leds, scanVars, ledVars, thread_lock, arg, depth,
                   unitVars, obsVars, callVars>>

\* stop_thread leaves the `with` block and returns.
StopExit(c) ==
    /\ pc[c] = "sp_exit"
    /\ thread_lock' = None
    /\ pc' = [pc EXCEPT ![c] = ReturnPc(c)]
    /\ UNCHANGED <<dispVars, leds, scanVars, ledVars, current_thread, arg, depth,
                   unitVars, obsVars, callVars>>

\* A task on the secondary side runs to its end: success.high() raises the
\* success pin; the other tasks touch nothing of the model.
TaskRun(h) ==
    /\ h \in running
    /\ pc[Main] # "restarted"
    /\ running' = running \ {h}
    /\ success' = (IF taskOf[h] = SuccessHigh THEN TRUE ELSE success)
    /\ UNCHANGED <<dispVars, pc, leds, scanVars, progress, error, lockVars, taskOf,
                   obsVars, callVars>>

\* A caller context calls start_thread(t, ()).
CallStart(c, t) ==
    /\ pc[c] = "idle"
    /\ calls[c] < MaxCalls
    /\ calls' = [calls EXCEPT ![c] = @ + 1]
    /\ arg' = [arg EXCEPT ![c] = t]
    /\ pc' = [pc EXCEPT ![c] = "st_acquire"]
    /\ UNCHANGED <<dispVars, leds, scanVars, ledVars, thread_lock, current_thread, depth,
                   unitVars, obsVars, backoffs>>

\* A caller context calls stop_thread().
CallStop(c) ==
    /\ pc[c] = "idle"
    /\ calls[c] < MaxCalls
    /\ calls' = [calls EXCEPT ![c] = @ + 1]
    /\ pc' = [pc EXCEPT ![c] = "sp_acquire"]
    /\ UNCHANGED <<dispVars, leds, scanVars, ledVars, lockVars, unitVars, obsVars, backoffs>>

\* ------------------------------------------------------------ specifications
\* The program of main.py. The secondary side is idle when the scan loop
\* dispatches, so the start it makes is never refused.
Next ==
    \/ ClearIndicators
    \/ Request
    \/ SelectTag
    \/ ReadBlock
    \/ BlinkHigh
    \/ BlinkLow
    \/ SignalSuccess
    \/ StartAcquire(Main)
    \/ StartDiscard(Main)
    \/ StartOk(Main)
    \/ StartExit(Main)
    \/ Callback
    \/ StopCrypto1
    \/ Reset
    \/ PollSleep
    \/ \E h \in running : TaskRun(h)

Spec == Init /\ [][Next]_vars

\* The same program with its scheduling: the main context is the only thread
\* of the first core and the secondary unit runs what it was given, so a step
\* that stays possible is taken.
FairSpec == Init /\ [][Next]_vars /\ WF_vars(Next)

\* The threading module under the calls of the caller contexts.
NextThreads ==
    \/ \E c \in Clients :
         \/ \E t \in Tasks : CallStart(c, t)
         \/ CallStop(c)
         \/ StartAcquire(c)
         \/ StartDiscard(c)
         \/ StartOk(c)
         \/ StartBusy(c)
         \/ StartBackoff(c)
         \/ StartExit(c)
         \/ StopAcquire(c)
         \/ StopClear(c)
         \/ StopExit(c)
    \/ \E h \in running : TaskRun(h)

SpecThreads == Init /\ [][NextThreads]_vars

\* The scan loop meeting an occupied secondary unit: beside the scan loop a
\* second context starts tasks through start_thread, so that the loop's own
\* start_thread call can find the unit busy. The reads of these scans all
\* succeed: the runs are the ones that reach the success dispatch.
Occupier == "c1"

ReadBlockOk == ReadBlock /\ ~readLog'[Len(readLog')].failed

MainBusy ==
    \/ ClearIndicators
    \/ Request
    \/ SelectTag
    \/ ReadBlockOk
    \/ SignalSuccess
    \/ StartAcquire(Main)
    \/ StartDiscard(Main)
    \/ StartOk(Main)
    \/ StartBusy(Main)
    \/ StartBackoff(Main)
    \/ StartExit(Main)
    \/ Callback
    \/ StopCrypto1
    \/ Reset
    \/ PollSleep

OccupierBusy ==
    \/ \E t \in Tasks : CallStart(Occupier, t)
    \/ StartAcquire(Occupier)
    \/ StartDiscard(Occupier)
    \/ StartOk(Occupier)
    \/ StartBusy(Occupier)
    \/ StartBackoff(Occupier)
    \/ StartExit(Occupier)

TasksEnd == \E h \in running : TaskRun(h)

NextBusy == MainBusy \/ OccupierBusy \/ TasksEnd

\* Every reader call and the callback return, each context keeps running, and
\* a task on the secondary unit comes to its end (the unit becomes available).
SpecBusy ==
    /\ Init
    /\ [][NextBusy]_vars
    /\ WF_vars(MainBusy)
    /\ WF_vars(OccupierBusy)
    /\ WF_vars(TasksEnd)

\* ------------------------------------------------------------------- claims
\* What the claims speak about, read off the observations.
AnyFailed == \E i \in 1..Len(readLog) : readLog[i].failed
Occurred(e) == \E i \in 1..Len(events) : events[i] = e
IsPrefix(p, q) == Len(p) <= Len(q) /\ \A i \in 1..Len(p) : p[i] = q[i]
LoggedAddr(i) == <<readLog[i].sector, readLog[i].block>>
\* The payloads of the reads of the log that succeeded, in the order read.
RECURSIVE Expected(_)
Expected(log) ==
    IF log = <<>> THEN <<>>
    ELSE LET e == log[Len(log)]
             front == Expected(SubSeq(log, 1, Len(log) - 1))
         IN  IF e.failed THEN front ELSE front \o BlockData(e.sector, e.block)
RECURSIVE PayloadLength(_)
PayloadLength(log) ==
    IF log = <<>> THEN 0
    ELSE PayloadLength(SubSeq(log, 1, Len(log) - 1))
         + (IF log[Len(log)].failed THEN 0
            ELSE Len(BlockData(log[Len(log)].sector, log[Len(log)].block)))
\* The maximal runs of consecutive failed reads in the log.
Runs(log) ==
    Cardinality({i \in 1..Len(log) :
                   log[i].failed /\ (i = 1 \/ ~log[i - 1].failed)})

\* C1: in a tag-present cycle in which some block read failed, at whatever
\* position, the callback is not invoked and the restart is not issued.
C1_NoDeliveryAfterFailure ==
    AnyFailed =>
      /\ ~Occurred("deliver")
      /\ ~Occurred("restart")
      /\ delivered = <<>>
      /\ pc[Main] \notin {"success", "callback", "release", "reset", "restarted"}

\* A cycle that ran to its end with one failed read followed only by successes.
C1_Witness ==
    /\ pc[Main] = "sleep"
    /\ Len(readLog) = NumAddrs
    /\ readLog[10].failed
    /\ \A i \in 1..Len(readLog) : i # 10 => ~readLog[i].failed

\* With a controller configured, the success path of a cycle whose reads all
\* succeeded: the success indication dispatched through start_thread, the
\* callback handed the accumulated bytes, the tag session released, the restart.
C2_Order == <<"dispatch", "deliver", "release", "restart">>
C2_SuccessOrderState ==
    leds =>
      /\ IsPrefix(events, C2_Order)
      /\ events # <<>> => (~AnyFailed /\ Len(readLog) = 45)
      /\ Occurred("deliver") =>
           (taskOf = <<SuccessHigh>> /\ delivered = <<all_data>> /\ thread_lock = None)
      /\ pc[Main] = "callback" => events = <<"dispatch">>
      /\ pc[Main] = "restarted" => events = C2_Order
\* C2: the success path's events come once each and in the order of C2_Order,
\* after a scan whose reads all succeeded, and no step follows the restart.
C2_SuccessOrder ==
    /\ []C2_SuccessOrderState
    /\ [][pc[Main] = "restarted" => UNCHANGED vars]_vars

\* A scan whose reads all succeeded has gone through to the restart.
C2_Witness ==
    leds /\ pc[Main] = "restarted" /\ events = C2_Order /\ Len(delivered) = 1

\* A block read adds its payload to the bytes if it succeeded and nothing if
\* it failed; no other step changes the bytes within a cycle.
C3_StepAdds ==
    /\ Len(readLog') = Len(readLog) + 1 =>
         LET e == readLog'[Len(readLog')]
         IN  all_data' = all_data \o
               (IF e.failed THEN <<>> ELSE BlockData(e.sector, e.block))
    /\ readLog' = readLog => all_data' = all_data
\* Where a scan ends the bytes, and what the callback was handed, are the
\* payloads of the cycle's successful reads in scan order.
C3_ScanEnd ==
    pc[Main] \in {"sleep", "callback", "restarted"} =>
      /\ all_data = Expected(readLog)
      /\ Len(all_data) = PayloadLength(readLog)
      /\ \A i \in 1..Len(delivered) : delivered[i] = Expected(readLog)
\* C3: the accumulated bytes are the payloads of this cycle's successful reads
\* so far, in scan order: a failed read adds nothing, nothing of an earlier
\* cycle is kept, and what the callback is handed has the summed length.
\* Stated step by step (no read yet, no byte; each read adds its own payload)
\* and in full where a scan ends.
C3_AccumulatedBytes ==
    /\ [](readLog = <<>> => all_data = <<>>)
    /\ [][C3_StepAdds]_vars
    /\ []C3_ScanEnd

\* A second tag-present cycle, after one that read data, with failed reads
\* among successful ones.
C3_Witness ==
    /\ prevEndedFailed
    /\ request = 2
    /\ Len(readLog) = NumAddrs
    /\ readLog[2].failed /\ readLog[4].failed
    /\ all_data # <<>>

\* C4 as claimed: a tag-present cycle that does not restart issues 48 reads.
C4_Claimed48 ==
    (pc[Main] = "sleep" /\ readLog # <<>>) => Len(readLog) = 48

\* C4, amended: a tag-present cycle that does not end in a restart issues 45
\* block reads, one for each address of sectors 1..15 and blocks 0..2, and the
\* success check is made at the final address (15, 2) only.
C4_FullScan ==
    /\ (pc[Main] = "sleep" /\ readLog # <<>>) =>
         /\ Len(readLog) = 45
         /\ \A s \in 1..15, b \in 0..2 : LoggedAddr(3 * (s - 1) + b + 1) = <<s, b>>
         /\ checks = << <<15, 2>> >>
    /\ \A i \in 1..Len(checks) : checks[i] = <<15, 2>>

\* A tag-present cycle with a failed read has reached its sleep.
C4_Witness ==
    pc[Main] = "sleep" /\ Len(readLog) = 45 /\ checks # <<>>

\* C5: a failed read does not abort the scan: the reads go on in ascending
\* (sector, block) order up to (15, 2) before the poll-interval sleep.
C5_NoAbort ==
    AnyFailed =>
      /\ \A i \in 1..Len(readLog) :
           LoggedAddr(i) = <<1 + ((i - 1) \div 3), (i - 1) % 3>>
      /\ pc[Main] = "read" =>
           <<sector, block>> = <<1 + (Len(readLog) \div 3), Len(readLog) % 3>>
      /\ pc[Main] \in {"sleep", "request"} =>
           (Len(readLog) = 45 /\ LoggedAddr(45) = <<15, 2>>)

\* The first read of a cycle failed and the cycle reached its sleep.
C5_Witness ==
    /\ pc[Main] = "sleep"
    /\ readLog # <<>>
    /\ readLog[1].failed
    /\ Len(readLog) = 45

\* C6 as claimed: within a scan, the error indications number the maximal runs
\* of consecutive failed block reads.
C6_BlinkPerRun ==
    (leds /\ pc[Main] = "sleep" /\ readLog # <<>>) => errBlinks = Runs(readLog)

\* C7 as claimed: the failure-streak flag is clear at the start of every
\* tag-present cycle.
C7_FlagClearAtCycleStart ==
    pc[Main] = "select" => ~fail_flag

\* C8 as claimed: a start that met a busy secondary side backs off and makes
\* its next attempt; it is never left waiting for the lock while holding it.
C8_RetryProceeds ==
    \A c \in Callers :
      (pc[c] = "st_acquire" /\ backoffs[c] > 0) => thread_lock # c

\* A start that succeeded leaves in the slot the handle it has just made.
C9_SlotHoldsLatest ==
    \A c \in Clients :
      pc[c] = "st_exit" =>
        /\ current_thread = Len(taskOf)
        /\ taskOf[current_thread] = arg[c]
SlotAccess == {"st_discard", "st_start", "sp_clear"}
\* C10: a caller is at a read or a write of the slot only while it holds
\* thread_lock, so at most one caller is; and the slot holds no handle or one.
C10_SlotUnderLock ==
    /\ \A c \in Callers : pc[c] \in SlotAccess => thread_lock = c
    /\ Cardinality({c \in Callers : pc[c] \in SlotAccess}) <= 1
    /\ current_thread \in {NoThread} \cup (1..Len(taskOf))

\* One caller is about to write the slot while the other waits for the lock,
\* the slot holding a handle.
C10_Witness ==
    /\ pc["c1"] = "st_start"
    /\ pc["c2"] = "sp_acquire"
    /\ thread_lock = "c1"
    /\ taskOf # <<>>

\* ---------------------------------------------------------------- C11
\* C11: stop_thread only forgets the reference. The step that clears the slot
\* leaves it empty and leaves the tasks of the secondary unit, the indicators
\* and the lock as they were; on an empty slot it changes nothing but the
\* caller's position. The step that returns releases the lock with the slot
\* still empty and the tasks untouched.
C11_StopStep ==
    \A c \in Clients :
        /\ (pc[c] = "sp_clear" /\ pc'[c] = "sp_exit") =>
               /\ current_thread' = NoThread
               /\ current_thread = NoThread => current_thread' = current_thread
               /\ thread_lock = c /\ thread_lock' = c
               /\ UNCHANGED <<unitVars, ledVars, scanVars, arg, depth>>
        /\ (pc[c] = "sp_exit" /\ pc'[c] = "idle") =>
               /\ current_thread = NoThread /\ current_thread' = NoThread
               /\ thread_lock' = None
               /\ UNCHANGED <<unitVars, ledVars, scanVars, arg, depth>>

C12_LastReadDecides ==
    (checks # <<>> /\ Len(readLog) = NumAddrs /\ ~readLog[NumAddrs].failed) =>
        pc[Main] \notin {"sleep", "request"}

\* C12, amended: the success decision depends on the whole cycle. read_failed
\* is true exactly when some read of the cycle has failed, so a failed read at
\* an earlier block keeps the success path closed although every later read
\* succeeds: nothing is dispatched, delivered or restarted in that cycle.
C12_HistoryDecides ==
    /\ read_failed <=> AnyFailed
    /\ pc[Main] = "success" => ~AnyFailed
    /\ AnyFailed => events = <<>>

\* A cycle whose tenth read failed and whose later reads all succeeded has
\* made the check at (15, 2) and has gone on to the poll sleep.
C12_Witness ==
    /\ Len(readLog) = NumAddrs
    /\ readLog[10].failed
    /\ \A i \in 11..NumAddrs : ~readLog[i].failed
    /\ checks = <<<<FinalSector, FinalBlock>>>>
    /\ read_failed
    /\ pc[Main] = "sleep"

\* ---------------------------------------------------------------- C13
\* C13: at the start of every iteration of the polling loop, when the request
\* query is about to be issued, the success, progress and error indicators
\* are all low.
C13_IndicatorsLowAtRequest ==
    pc[Main] = "request" => ~success /\ ~progress /\ ~error

\* ---------------------------------------------------------------- C14
\* The success task dispatched by the scan loop is still running on the
\* secondary unit.
SuccessTaskRunning == \E h \in running : taskOf[h] = SuccessHigh

\* The main context is in its error blink (about to raise the error pin, or
\* has raised it and not yet lowered it) while the success task still runs.
C14_Race ==
    /\ pc[Main] \in {"blink_high", "blink_low"}
    /\ SuccessTaskRunning

\* The polling loop has run the cycles the model gives it.
C14_CyclesUsedUp == pc[Main] = "request" /\ request >= MaxCycles

C15_NoRestartAfterFault ==
    logged # <<>> => ~Occurred("restart") /\ pc[Main] # "restarted"

\* C15, amended: a fault in the display handoff is caught and logged inside
\* handle_data, once, and the handoff is abandoned (nothing is shown when the
\* fault came before the print); handle_data then returns normally, so the
\* scan loop goes on to release the tag and restart the device, exactly as
\* after a handoff without fault.
C15_RestartAfterFault ==
    logged # <<>> =>
        /\ Len(logged) = 1
        /\ Len(delivered) = 1
        /\ Len(displayed) <= 1
        /\ pc[Main] \in {"release", "reset", "restarted"}
        /\ IsPrefix(events, C2_Order)
        /\ pc[Main] = "restarted" => events = C2_Order

\* A fault before the print was caught and logged, nothing was shown, and the
\* device has restarted.
C15_Witness ==
    /\ logged = <<"Display error">>
    /\ displayed = <<>>
    /\ delivered # <<>>
    /\ pc[Main] = "restarted"
    /\ Occurred("restart")

\* ---------------------------------------------------------------- C16
\* The request step of a tag-absent cycle: the query returned a status other
\* than OK and the loop went straight to its poll sleep.
C16_AbsentRequest == pc[Main] = "request" /\ pc'[Main] = "sleep"

\* C16: a tag-absent cycle changes the request counter and sleeps, nothing
\* else: no select (the identifier is untouched) and no block read is issued,
\* no indicator is written, the failure-streak flag is unchanged, nothing is
\* dispatched, delivered or restarted, and the sleep leads to the next cycle.
C16_AbsentStep ==
    /\ C16_AbsentRequest =>
           /\ request' = request + 1
           /\ status' # OK
           /\ readLog' = <<>> /\ events' = <<>> /\ errBlinks' = 0
           /\ all_data' = <<>>
           /\ UNCHANGED <<ledVars, fail_flag, uid, sector, block, delivered,
                          dispVars, lockVars, unitVars>>
    /\ (pc[Main] = "sleep" /\ pc'[Main] # "sleep") =>
           /\ pc'[Main] = "request"
           /\ UNCHANGED <<scanVars, ledVars, lockVars, unitVars, obsVars, dispVars>>

C16_AbsentCycle == [][C16_AbsentStep]_vars

\* The second cycle found no tag; the failure-streak flag left by the first
\* cycle is still set and the loop is back at the top for the next cycle.
C16_Witness ==
    /\ pc[Main] = "request"
    /\ request = 2
    /\ status # OK
    /\ readLog = <<>>
    /\ fail_flag

\* ---------------------------------------------------------------- C17
\* The scan loop is stalled in its success dispatch: it waits at the entry of
\* start_thread for the lock that its own calling frame holds, with nothing
\* delivered and no restart issued.
C17_Stalled ==
    /\ Occurred("dispatch")
    /\ pc[Main] = "st_acquire"
    /\ thread_lock = Main
    /\ delivered = <<>>

\* C17: the success dispatch never stalls the scan loop, also when the
\* secondary unit was busy on the first start attempt.
C17_DispatchNeverStalls == ~C17_Stalled

\* C17 in its temporal form: a cycle whose reads all succeeded leads to the
\* delivery and to the restart.
C17_SuccessLeadsToRestart ==
    (pc[Main] = "success") ~> (delivered # <<>> /\ pc[Main] = "restarted")

\* ---------------------------------------------------------------- C18
\* The number of indicators that are high.
HighCount ==
    (IF success THEN 1 ELSE 0) + (IF progress THEN 1 ELSE 0) + (IF error THEN 1 ELSE 0)

\* C18: once read_data has cleared the indicators, at most one of success,
\* progress and error is high, also while and after the success task runs:
\* the progress indicator is low during every error blink and from the
\* success dispatch on.
C18_AtMostOneHigh ==
    /\ pc[Main] # "clear" => HighCount <= 1
    /\ pc[Main] \in {"blink_high", "blink_low"} => ~progress /\ ~success
    /\ Occurred("dispatch") => ~progress /\ ~error

\* The success task has run on the secondary unit: the success indicator is
\* the one that is high, while the main context is still before the restart.
C18_Witness ==
    /\ success
    /\ ~progress /\ ~error
    /\ running = {}
    /\ pc[Main] \in {"callback", "release", "reset"}

\* ---------------------------------------------------------------- C19
\* C19: between two restarts start_thread and the delivery callback are each
\* invoked at most once. One task at most has ever been given to the
\* secondary unit, one payload at most has been delivered, and after the
\* delivery the main context only releases the tag and restarts, so nothing is
\* dispatched while an earlier task of the scan loop is running.
C19_AtMostOnce ==
    /\ Len(taskOf) <= 1
    /\ Len(delivered) <= 1
    /\ Cardinality(running) <= 1
    /\ arg[Main] # None => Occurred("dispatch")
    /\ delivered # <<>> => pc[Main] \in {"release", "reset", "restarted"}
    /\ pc[Main] \in {"success", "st_acquire", "st_discard", "st_start"} =>
           taskOf = <<>> /\ delivered = <<>>

\* The second cycle was the first fully successful one: its task was started,
\* its payload delivered, and the device has restarted.
C19_Witness ==
    /\ request = MaxCycles
    /\ Len(taskOf) = 1
    /\ Len(delivered) = 1
    /\ pc[Main] = "restarted"

\* ---------------------------------------------------------------- C20
\* The select step, and a block read step, of the scan loop.
C20_SelectStep == pc[Main] = "select" /\ pc'[Main] # "select"
C20_ReadStep == pc[Main] = "read" /\ Len(readLog') = Len(readLog) + 1

\* Whatever select reported, the block loops start at (1, 0); every block
\* read is given the identifier select returned, which the reads leave alone.
C20_Step ==
    /\ C20_SelectStep =>
           /\ pc'[Main] = "read"
           /\ sector' = 1 /\ block' = 0
           /\ readLog' = <<>>
           /\ (status' = OK) <=> (uid' # None)
    /\ C20_ReadStep =>
           /\ readLog'[Len(readLog')].uid = uid
           /\ uid' = uid

\* A cycle whose select did not report OK (no identifier) still issues the
\* whole sequence of block reads before it ends.
C20_FullScanWithoutSelect ==
    (uid = None /\ readLog # <<>> /\ pc[Main] \in {"sleep", "success"}) =>
        Len(readLog) = NumAddrs

\* C20: the select step does not gate the scan. In every cycle where the
\* request returned OK the full sequence of block reads is issued with the
\* identifier select returned, whether or not select reported OK.
C20_SelectDoesNotGate == [][C20_Step]_vars /\ []C20_FullScanWithoutSelect

\* Select did not report OK, the reads were issued with the empty identifier
\* and all succeeded, and success was declared: delivered and restarted.
C20_Witness ==
    /\ uid = None
    /\ Len(readLog) = NumAddrs
    /\ readLog[1].uid = None
    /\ ~AnyFailed
    /\ delivered # <<>>
    /\ pc[Main] = "restarted"

====
